---- MODULE Spec2Model ----
(***************************************************************************)
(* OCB3 mode of lib/Crypto/Cipher/_mode_ocb.py (class OcbMode).            *)
(*                                                                         *)
(* The Python layer (construction of Offset_0, the permitted-next set,     *)
(* the caches for unaligned associated data and message bytes, the tag     *)
(* cache and its verification) is translated from the source.  The raw     *)
(* engine behind raw_ocb_lib (OCB_start_operation, OCB_update,             *)
(* OCB_encrypt, OCB_decrypt, OCB_digest), the block cipher and strxor      *)
(* are not part of the Python file; they are modelled from the design      *)
(* document (sections 4.1 to 4.8).                                         *)
(*                                                                         *)
(* Byte strings are sequences of integers 0..255.  Python's None is the    *)
(* one-element sequence <<-1>>, which is no byte string.                   *)
(***************************************************************************)
EXTENDS Integers, Sequences, FiniteSets, TLC

VARIABLES
    cipher,     \* the OcbMode object: its attributes
    A,          \* the associated data the caller holds
    P,          \* the message (plaintext or ciphertext) the caller holds
    adIn,       \* number of bytes of A accepted by update() so far
    msgIn,      \* number of bytes of P accepted by encrypt()/decrypt() so far
    call,       \* name of the last method called
    arg,        \* its argument
    err,        \* the exception it raised, or "none"
    ret,        \* the value it returned
    out,        \* concatenation of all values returned by encrypt()/decrypt()
    hist,       \* which calls have completed so far
    pre,        \* hist as it was before the last call
    pc,         \* position of the caller in the scripted scenarios
    wire        \* what the sender handed to the receiver

vars == <<cipher, A, P, adIn, msgIn, call, arg, err, ret, out, hist, pre, pc, wire>>

----------------------------------------------------------------------------
(* Bounds *)

MaxAD == 18
MaxMsg == 32
MaxRtAD == 17
MaxRtMsg == 33

----------------------------------------------------------------------------
(* Bytes and byte strings *)

None == <<-1>>

(* The(S): the element of the one-element set S.  An intermediate value v  *)
(* of a computation is named by The({ ... x ... : x \in {v} }).            *)
The(S) == CHOOSE x \in S : TRUE

block_size == 16

RECURSIVE BitXor(_, _, _)
BitXor(a, b, n) ==
    IF n = 0 THEN 0
    ELSE (((a % 2) + (b % 2)) % 2) + 2 * BitXor(a \div 2, b \div 2, n - 1)

NibXor == [a \in 0..15 |-> [b \in 0..15 |-> BitXor(a, b, 4)]]

ByteXor(a, b) == (16 * NibXor[a \div 16][b \div 16]) + NibXor[a % 16][b % 16]

strxor(x, y) == [i \in 1..Len(x) |-> ByteXor(x[i], y[i])]

bchr_times(v, n) == IF n > 0 THEN [i \in 1..n |-> v] ELSE <<>>

Take(s, n) == SubSeq(s, 1, n)

Drop(s, n) == SubSeq(s, n + 1, Len(s))

Min(a, b) == IF a < b THEN a ELSE b

ZeroBlock == bchr_times(0, block_size)

(* Big integers are sequences of bits, most significant first. *)
ByteBits(v) == [k \in 1..8 |-> (v \div (2 ^ (8 - k))) % 2]

bytes_to_long(s) == [k \in 1..(8 * Len(s)) |-> ByteBits(s[((k - 1) \div 8) + 1])[((k - 1) % 8) + 1]]

ShiftRight(n, k) == IF k >= Len(n) THEN <<>> ELSE Take(n, Len(n) - k)

BitsToByte(bits, j) ==
    (128 * bits[(8 * j) - 7]) + (64 * bits[(8 * j) - 6]) + (32 * bits[(8 * j) - 5])
    + (16 * bits[(8 * j) - 4]) + (8 * bits[(8 * j) - 3]) + (4 * bits[(8 * j) - 2])
    + (2 * bits[(8 * j) - 1]) + bits[8 * j]

long_to_bytes(n, blocksize) ==
    The({ [j \in 1..(Len(padded) \div 8) |-> BitsToByte(padded, j)] :
          padded \in {bchr_times(0, ((((IF Len(n) = 0 THEN 8 ELSE Len(n)) + (8 * blocksize) - 1)
                                        \div (8 * blocksize)) * (8 * blocksize)) - Len(n)) \o n} })

----------------------------------------------------------------------------
(* The block cipher under the fixed key: a permutation of the 16-byte      *)
(* blocks, and its inverse.                                                *)

EK(X) == [i \in 1..block_size |-> ((5 * X[(i % block_size) + 1]) + (17 * i) + 3) % 256]

DK(Y) == [i \in 1..block_size |->
            LET j == IF i = 1 THEN block_size ELSE i - 1
            IN  (205 * ((Y[j] - (17 * j) - 3) % 256)) % 256]

----------------------------------------------------------------------------
(* The raw engine *)

double(X) ==
    The({ IF X[1] \div 128 = 0 THEN Y
          ELSE [Y EXCEPT ![block_size] = ByteXor(Y[block_size], 135)] :
          Y \in {[i \in 1..block_size |->
                    ((2 * X[i]) % 256) + (IF i < block_size THEN X[i + 1] \div 128 ELSE 0)]} })

L_star == EK(ZeroBlock)

L_dollar == double(L_star)

RECURSIVE L(_)
L(i) == IF i = 0 THEN double(L_dollar) ELSE double(L(i - 1))

RECURSIVE ntz(_)
ntz(i) == IF i % 2 = 1 THEN 0 ELSE 1 + ntz(i \div 2)

Pad10(s) == s \o <<128>> \o bchr_times(0, block_size - Len(s) - 1)

OCB_start_operation(offset_0) ==
    [offset_ad |-> ZeroBlock, sum_ad |-> ZeroBlock, block_idx_ad |-> 0,
     offset_msg |-> offset_0, checksum_msg |-> ZeroBlock, block_idx_msg |-> 0]

(* one full block of associated data *)
OCB_update_block(st, blk) ==
    The({ [st EXCEPT !.block_idx_ad = st.block_idx_ad + 1,
                     !.offset_ad = off,
                     !.sum_ad = strxor(st.sum_ad, EK(strxor(blk, off)))] :
          off \in {strxor(st.offset_ad, L(ntz(st.block_idx_ad + 1)))} })

(* the last 1..15 bytes of associated data *)
OCB_update_partial(st, data) ==
    The({ [st EXCEPT !.offset_ad = off,
                     !.sum_ad = strxor(st.sum_ad, EK(strxor(Pad10(data), off)))] :
          off \in {strxor(st.offset_ad, L_star)} })

RECURSIVE OCB_update(_, _)
OCB_update(st, data) ==
    IF Len(data) = 0 THEN st
    ELSE IF Len(data) >= block_size
    THEN OCB_update(OCB_update_block(st, Take(data, block_size)), Drop(data, block_size))
    ELSE OCB_update_partial(st, data)

(* one full block of the message: the block that comes out, and the        *)
(* plaintext block, which goes into the checksum                           *)
OCB_transcrypt_block(st, blk, dir) ==
    The({ The({ [st |-> [st EXCEPT !.block_idx_msg = st.block_idx_msg + 1,
                                   !.offset_msg = off,
                                   !.checksum_msg = strxor(st.checksum_msg,
                                                          IF dir = "encrypt" THEN blk ELSE res)],
                 out |-> res] :
                res \in {IF dir = "encrypt"
                         THEN strxor(off, EK(strxor(blk, off)))
                         ELSE strxor(off, DK(strxor(blk, off)))} }) :
          off \in {strxor(st.offset_msg, L(ntz(st.block_idx_msg + 1)))} })

(* the last 1..15 bytes of the message *)
OCB_transcrypt_partial(st, data, dir) ==
    The({ The({ [st |-> [st EXCEPT !.offset_msg = off,
                                   !.checksum_msg = strxor(st.checksum_msg,
                                                          Pad10(IF dir = "encrypt" THEN data ELSE res))],
                 out |-> res] :
                res \in {strxor(data, Take(EK(off), Len(data)))} }) :
          off \in {strxor(st.offset_msg, L_star)} })

(* OCB_encrypt (dir = "encrypt") and OCB_decrypt (dir = "decrypt"): the    *)
(* new engine state and the output, as long as the input.                  *)
RECURSIVE OCB_transcrypt(_, _, _)
OCB_transcrypt(st, data, dir) ==
    IF Len(data) = 0 THEN [st |-> st, out |-> <<>>]
    ELSE IF Len(data) >= block_size
    THEN The({ The({ [st |-> rest.st, out |-> b.out \o rest.out] :
                     rest \in {OCB_transcrypt(b.st, Drop(data, block_size), dir)} }) :
               b \in {OCB_transcrypt_block(st, Take(data, block_size), dir)} })
    ELSE OCB_transcrypt_partial(st, data, dir)

OCB_digest(st) ==
    strxor(EK(strxor(strxor(st.checksum_msg, st.offset_msg), L_dollar)), st.sum_ad)

----------------------------------------------------------------------------
(* OcbMode.__init__ *)

(* bchr(mac_len << 4 & 0xFF) + bchr(0) * (14 - len(nonce)) + bchr(1) + nonce *)
NonceBlock(nonce, mac_len) ==
    <<(mac_len * 16) % 256>> \o bchr_times(0, 14 - Len(nonce)) \o <<1>> \o nonce

(* bord(nonce[15]) & 0x3F *)
Bottom(nonce, mac_len) == NonceBlock(nonce, mac_len)[16] % 64

(* nonce[:15] + bchr(bord(nonce[15]) & 0xC0): the block given to E_K *)
KtopInput(nonce, mac_len) ==
    The({ Take(nb, 15) \o <<nb[16] - (nb[16] % 64)>> : nb \in {NonceBlock(nonce, mac_len)} })

Stretch(ktop) == ktop \o strxor(SubSeq(ktop, 1, 8), SubSeq(ktop, 2, 9))

(* the shift taken by bottom bits, not by 64 - bottom *)
Offset0FromStretch_ShiftsByBottom(stretch, bottom) ==
    Drop(long_to_bytes(ShiftRight(bytes_to_long(stretch), bottom), 24), 8)

Offset0FromStretch(stretch, bottom) ==
    Drop(long_to_bytes(ShiftRight(bytes_to_long(stretch), 64 - bottom), 24), 8)

Offset_0(nonce, mac_len) ==
    Offset0FromStretch(Stretch(EK(KtopInput(nonce, mac_len))), Bottom(nonce, mac_len))

(* The outcome of a call: the object after it, the value returned, the     *)
(* exception raised ("none" when it returned), and the bytes returned by   *)
(* the encrypt()/decrypt() calls made on the way.                          *)
Return(c, r, o) == [c |-> c, ret |-> r, err |-> "none", out |-> o]

Raise(c, e) == [c |-> c, ret |-> None, err |-> e, out |-> <<>>]

(* The record of the calls made into the raw engine, kept beside the       *)
(* object: the bytes handed to OCB_update and to OCB_encrypt/OCB_decrypt,  *)
(* how many of the chunks handed over were no whole number of blocks, how  *)
(* many bytes were handed over after such a chunk, how often OCB_digest    *)
(* was called and how many bytes were pending in the caches then, and how  *)
(* many calls of any of them followed a call of OCB_digest.                *)
NoCalls ==
    [fed_ad |-> <<>>, part_ad |-> 0, tail_ad |-> 0,
     fed_msg |-> <<>>, part_msg |-> 0, tail_msg |-> 0,
     n_digest |-> 0, pend_at_digest |-> 0, late |-> 0]

Partial(data) == IF Len(data) % block_size # 0 THEN 1 ELSE 0

Late(t) == IF t.n_digest > 0 THEN 1 ELSE 0

LogUpdate(t, data) ==
    [t EXCEPT !.fed_ad = t.fed_ad \o data,
              !.part_ad = t.part_ad + Partial(data),
              !.tail_ad = t.tail_ad + (IF t.part_ad > 0 THEN Len(data) ELSE 0),
              !.late = t.late + Late(t)]

LogTranscrypt(t, data) ==
    [t EXCEPT !.fed_msg = t.fed_msg \o data,
              !.part_msg = t.part_msg + Partial(data),
              !.tail_msg = t.tail_msg + (IF t.part_msg > 0 THEN Len(data) ELSE 0),
              !.late = t.late + Late(t)]

LogDigest(t, pending) ==
    [t EXCEPT !.n_digest = t.n_digest + 1,
              !.pend_at_digest = t.pend_at_digest + pending,
              !.late = t.late + Late(t)]

new(nonce, mac_len) ==
    [nonce   |-> nonce,
     mac_len |-> mac_len,
     mac_tag |-> None,
     cache_A |-> <<>>,
     cache_P |-> <<>>,
     next    |-> {"update", "encrypt", "decrypt", "digest", "verify"},
     state   |-> OCB_start_operation(Offset_0(nonce, mac_len)),
     trace   |-> NoCalls]

(* len(self.nonce) in range(1, 16), with the bound one too high *)
NonceLenOK_Sixteen(nonce) == Len(nonce) \in 1..16

(* len(self.nonce) in range(1, 16) *)
NonceLenOK(nonce) == Len(nonce) \in 1..15

(* 8 <= self._mac_len <= 16 *)
MacLenOK(mac_len) == (8 <= mac_len) /\ (mac_len <= 16)

(* OcbMode.__init__ with its argument checks.  When a check raises, the    *)
(* object holds the attributes assigned up to there and nothing else.      *)
init(factory_block_size, nonce, mac_len) ==
    IF factory_block_size # 16 THEN Raise(<<>>, "UnsupportedBlockSize")
    ELSE IF ~NonceLenOK(nonce)
    THEN Raise([block_size |-> factory_block_size, nonce |-> nonce, mac_len |-> mac_len],
               "InvalidNonceLength")
    ELSE IF ~MacLenOK(mac_len)
    THEN Raise([block_size |-> factory_block_size, nonce |-> nonce, mac_len |-> mac_len],
               "InvalidTagLength")
    ELSE Return(new(nonce, mac_len), None, <<>>)

----------------------------------------------------------------------------
(* OcbMode.update *)

UpdateNext == {"encrypt", "decrypt", "digest", "verify", "update"}

(* OcbMode._update(assoc_data, assoc_data_len): the first assoc_data_len   *)
(* bytes go to OCB_update                                                  *)
raw_update(c, assoc_data, assoc_data_len) ==
    [c EXCEPT !.state = OCB_update(c.state, Take(assoc_data, assoc_data_len)),
              !.trace = LogUpdate(c.trace, Take(assoc_data, assoc_data_len))]

(* the same statements with the left-over of the data not kept *)
UpdateAligned_LosesTail(c, assoc_data) ==
    The({ raw_update([c EXCEPT !.cache_A = <<>>], assoc_data, update_len) :
          update_len \in {(Len(assoc_data) \div block_size) * block_size} })

(* update_len = len(assoc_data) // block_size * block_size and the two     *)
(* statements after it                                                     *)
UpdateAligned(c, assoc_data) ==
    The({ raw_update([c EXCEPT !.cache_A = Drop(assoc_data, update_len)],
                     assoc_data, update_len) :
          update_len \in {(Len(assoc_data) \div block_size) * block_size} })

RECURSIVE update(_, _)
update(c, assoc_data) ==
    IF "update" \notin c.next THEN Raise(c, "InvalidSequence")
    ELSE IF Len(c.cache_A) > 0 THEN
        The({ The({ IF Len(c2.cache_A) < block_size
                    THEN Return(c2, None, <<>>)
                    ELSE The({ IF r.err # "none" THEN r
                               ELSE Return(UpdateAligned(r.c, Drop(assoc_data, filler)),
                                           None, <<>>) :
                               r \in {update([c2 EXCEPT !.cache_A = <<>>], c2.cache_A)} }) :
                    c2 \in {[c EXCEPT !.next = UpdateNext,
                                      !.cache_A = c.cache_A \o Take(assoc_data, filler)]} }) :
              filler \in {Min(block_size - Len(c.cache_A), Len(assoc_data))} })
    ELSE Return(UpdateAligned([c EXCEPT !.next = UpdateNext], assoc_data), None, <<>>)

----------------------------------------------------------------------------
(* OcbMode._transcrypt, encrypt, decrypt *)

(* a _transcrypt_aligned that hands the whole buffer to the engine, not    *)
(* in_data_len bytes of it                                                 *)
TranscryptAligned_WholeBuffer(c, in_data, in_data_len, dir) ==
    The({ [c |-> [c EXCEPT !.state = r.st, !.trace = LogTranscrypt(c.trace, in_data)],
           out |-> r.out] :
          r \in {OCB_transcrypt(c.state, in_data, dir)} })

(* _transcrypt_aligned(in_data, in_data_len, ...): in_data_len bytes out *)
TranscryptAligned(c, in_data, in_data_len, dir) ==
    The({ [c |-> [c EXCEPT !.state = r.st,
                           !.trace = LogTranscrypt(c.trace, Take(in_data, in_data_len))],
           out |-> r.out] :
          r \in {OCB_transcrypt(c.state, Take(in_data, in_data_len), dir)} })

(* the statements after "Process data in multiples of the block size",     *)
(* without the left-over                                                   *)
TranscryptRest_DropTail(c, prefix, in_data, dir) ==
    The({ The({ [c |-> [r.c EXCEPT !.cache_P = <<>>],
                 ret |-> prefix \o r.out] :
                r \in {TranscryptAligned(c, in_data, trans_len, dir)} }) :
          trans_len \in {(Len(in_data) \div block_size) * block_size} })

(* the statements of _transcrypt from "Process data in multiples of the    *)
(* block size" on                                                          *)
TranscryptRest(c, prefix, in_data, dir) ==
    The({ The({ [c |-> [r.c EXCEPT !.cache_P = Drop(in_data, trans_len)],
                 ret |-> prefix \o r.out] :
                r \in {TranscryptAligned(c, in_data, trans_len, dir)} }) :
          trans_len \in {(Len(in_data) \div block_size) * block_size} })

(* a _transcrypt that, having filled the cache, does not take the filler   *)
(* off the input                                                           *)
transcrypt_KeepsFiller(c, in_data, dir) ==
    IF in_data = None THEN
        The({ [c |-> [r.c EXCEPT !.cache_P = <<>>], ret |-> r.out] :
              r \in {TranscryptAligned(c, c.cache_P, Len(c.cache_P), dir)} })
    ELSE IF Len(c.cache_P) > 0 THEN
        The({ The({ IF Len(c1.cache_P) < block_size
                    THEN [c |-> c1, ret |-> <<>>]
                    ELSE The({ TranscryptRest([r.c EXCEPT !.cache_P = <<>>], r.out,
                                              in_data, dir) :
                               r \in {TranscryptAligned(c1, c1.cache_P, Len(c1.cache_P), dir)} }) :
                    c1 \in {[c EXCEPT !.cache_P = c.cache_P \o Take(in_data, filler)]} }) :
              filler \in {Min(block_size - Len(c.cache_P), Len(in_data))} })
    ELSE TranscryptRest(c, <<>>, in_data, dir)

transcrypt(c, in_data, dir) ==
    IF in_data = None THEN
        The({ [c |-> [r.c EXCEPT !.cache_P = <<>>], ret |-> r.out] :
              r \in {TranscryptAligned(c, c.cache_P, Len(c.cache_P), dir)} })
    ELSE IF Len(c.cache_P) > 0 THEN
        The({ The({ IF Len(c1.cache_P) < block_size
                    THEN [c |-> c1, ret |-> <<>>]
                    ELSE The({ TranscryptRest([r.c EXCEPT !.cache_P = <<>>], r.out,
                                              Drop(in_data, filler), dir) :
                               r \in {TranscryptAligned(c1, c1.cache_P, Len(c1.cache_P), dir)} }) :
                    c1 \in {[c EXCEPT !.cache_P = c.cache_P \o Take(in_data, filler)]} }) :
              filler \in {Min(block_size - Len(c.cache_P), Len(in_data))} })
    ELSE TranscryptRest(c, <<>>, in_data, dir)

(* an encrypt() that leaves decrypt permitted *)
EncryptNext_KeepsDecrypt(plaintext) ==
    IF plaintext = None THEN {"digest"} ELSE {"encrypt", "decrypt", "digest"}

(* an encrypt() that stays permitted after encrypt(None) *)
EncryptNext_StaysOpen(plaintext) == {"encrypt", "digest"}

EncryptNext(plaintext) ==
    IF plaintext = None THEN {"digest"} ELSE {"encrypt", "digest"}

encrypt(c, plaintext) ==
    IF "encrypt" \notin c.next THEN Raise(c, "InvalidSequence")
    ELSE The({ Return(r.c, r.ret, r.ret) :
               r \in {transcrypt([c EXCEPT !.next = EncryptNext(plaintext)],
                                 plaintext, "encrypt")} })

(* a decrypt() that permits verify, not digest, after data *)
DecryptNext_Verify(ciphertext) ==
    IF ciphertext = None THEN {"verify"} ELSE {"decrypt", "verify"}

DecryptNext(ciphertext) ==
    IF ciphertext = None THEN {"verify"} ELSE {"decrypt", "digest"}

decrypt(c, ciphertext) ==
    IF "decrypt" \notin c.next THEN Raise(c, "InvalidSequence")
    ELSE The({ Return(r.c, r.ret, r.ret) :
               r \in {transcrypt([c EXCEPT !.next = DecryptNext(ciphertext)],
                                 ciphertext, "decrypt")} })

----------------------------------------------------------------------------
(* OcbMode._compute_mac_tag, digest, verify *)

(* a _compute_mac_tag that leaves the pending associated data where it is *)
FlushCacheA_Skip(c) == c

(* if self._cache_A: self._update(self._cache_A, len(self._cache_A)) ... *)
FlushCacheA(c) ==
    IF Len(c.cache_A) > 0
    THEN [raw_update(c, c.cache_A, Len(c.cache_A)) EXCEPT !.cache_A = <<>>]
    ELSE c

(* a _compute_mac_tag that caches the whole 16-byte value *)
compute_mac_tag_NoTruncate(c) ==
    IF c.mac_tag # None THEN c
    ELSE The({ [c1 EXCEPT !.mac_tag = OCB_digest(c1.state),
                          !.trace = LogDigest(c1.trace, Len(c1.cache_A) + Len(c1.cache_P))] :
               c1 \in {FlushCacheA(c)} })

compute_mac_tag(c) ==
    IF c.mac_tag # None THEN c
    ELSE The({ [c1 EXCEPT !.mac_tag = Take(OCB_digest(c1.state), c1.mac_len),
                          !.trace = LogDigest(c1.trace, Len(c1.cache_A) + Len(c1.cache_P))] :
               c1 \in {FlushCacheA(c)} })

(* a digest() that leaves update permitted *)
DigestNext_AllowsUpdate == {"digest", "update"}

DigestNext == {"digest"}

(* a digest() without the check for outstanding data *)
digest_NoPendingCheck(c) ==
    IF "digest" \notin c.next THEN Raise(c, "InvalidSequence")
    ELSE The({ Return(c2, c2.mac_tag, <<>>) :
               c2 \in {compute_mac_tag([c EXCEPT !.next = DigestNext])} })

(* a digest() that narrows the permitted calls before it checks for        *)
(* outstanding data                                                        *)
digest_NarrowsFirst(c) ==
    IF "digest" \notin c.next THEN Raise(c, "InvalidSequence")
    ELSE IF Len(c.cache_P) > 0 THEN Raise([c EXCEPT !.next = DigestNext], "PendingData")
    ELSE The({ Return(c2, c2.mac_tag, <<>>) :
               c2 \in {IF c.mac_tag = None
                       THEN compute_mac_tag([c EXCEPT !.next = DigestNext])
                       ELSE [c EXCEPT !.next = DigestNext]} })

digest(c) ==
    IF "digest" \notin c.next THEN Raise(c, "InvalidSequence")
    ELSE IF Len(c.cache_P) > 0 THEN Raise(c, "PendingData")
    ELSE The({ Return(c2, c2.mac_tag, <<>>) :
               c2 \in {IF c.mac_tag = None
                       THEN compute_mac_tag([c EXCEPT !.next = DigestNext])
                       ELSE [c EXCEPT !.next = DigestNext]} })

(* BLAKE2s.new(digest_bits=160, key=secret, data=...).digest(): a keyed    *)
(* hash, taken to be injective in (key, data)                              *)
BLAKE2s(secret, data) == <<secret, data>>

(* a verify() that leaves digest permitted *)
VerifyNext_AllowsDigest == {"verify", "digest"}

VerifyNext == {"verify"}

(* a verify() that closes the session when the tags differ *)
verify_ClosesOnMismatch(c, received_mac_tag, secret) ==
    IF "verify" \notin c.next THEN Raise(c, "InvalidSequence")
    ELSE IF Len(c.cache_P) > 0 THEN Raise(c, "PendingData")
    ELSE The({ IF BLAKE2s(secret, c2.mac_tag) # BLAKE2s(secret, received_mac_tag)
               THEN Raise([c2 EXCEPT !.next = {}], "MacMismatch")
               ELSE Return(c2, None, <<>>) :
               c2 \in {IF c.mac_tag = None
                       THEN compute_mac_tag([c EXCEPT !.next = VerifyNext])
                       ELSE [c EXCEPT !.next = VerifyNext]} })

(* a verify() that compares as many bytes as it received *)
verify_ComparesPrefix(c, received_mac_tag, secret) ==
    IF "verify" \notin c.next THEN Raise(c, "InvalidSequence")
    ELSE IF Len(c.cache_P) > 0 THEN Raise(c, "PendingData")
    ELSE The({ IF BLAKE2s(secret, Take(c2.mac_tag, Len(received_mac_tag)))
                    # BLAKE2s(secret, received_mac_tag)
               THEN Raise(c2, "MacMismatch")
               ELSE Return(c2, None, <<>>) :
               c2 \in {IF c.mac_tag = None
                       THEN compute_mac_tag([c EXCEPT !.next = VerifyNext])
                       ELSE [c EXCEPT !.next = VerifyNext]} })

verify(c, received_mac_tag, secret) ==
    IF "verify" \notin c.next THEN Raise(c, "InvalidSequence")
    ELSE IF Len(c.cache_P) > 0 THEN Raise(c, "PendingData")
    ELSE The({ IF BLAKE2s(secret, c2.mac_tag) # BLAKE2s(secret, received_mac_tag)
               THEN Raise(c2, "MacMismatch")
               ELSE Return(c2, None, <<>>) :
               c2 \in {IF c.mac_tag = None
                       THEN compute_mac_tag([c EXCEPT !.next = VerifyNext])
                       ELSE [c EXCEPT !.next = VerifyNext]} })

----------------------------------------------------------------------------
(* OcbMode.encrypt_and_digest, decrypt_and_verify.  An exception raised    *)
(* by one of the calls ends the method; the bytes the earlier calls        *)
(* returned are kept in the field out.                                     *)

encrypt_and_digest(c, plaintext) ==
    The({ IF r1.err # "none" THEN r1
          ELSE The({ IF r2.err # "none" THEN [r2 EXCEPT !.out = r1.ret]
                     ELSE The({ IF r3.err # "none" THEN [r3 EXCEPT !.out = r1.ret \o r2.ret]
                                ELSE Return(r3.c, <<r1.ret \o r2.ret, r3.ret>>,
                                            r1.ret \o r2.ret) :
                                r3 \in {digest(r2.c)} }) :
                     r2 \in {encrypt(r1.c, None)} }) :
          r1 \in {encrypt(c, plaintext)} })

decrypt_and_verify(c, ciphertext, received_mac_tag, secret) ==
    The({ IF r1.err # "none" THEN r1
          ELSE The({ IF r2.err # "none" THEN [r2 EXCEPT !.out = r1.ret]
                     ELSE The({ IF r3.err # "none" THEN [r3 EXCEPT !.out = r1.ret \o r2.ret]
                                ELSE Return(r3.c, r1.ret \o r2.ret, r1.ret \o r2.ret) :
                                r3 \in {verify(r2.c, received_mac_tag, secret)} }) :
                     r2 \in {decrypt(r1.c, None)} }) :
          r1 \in {decrypt(c, ciphertext)} })

----------------------------------------------------------------------------
(* The caller: one session driven through arbitrary call sequences.  The   *)
(* caller feeds A and P front to back, in chunks of any size.              *)

Data(seed, n) == [i \in 1..n |-> (seed + (83 * i)) % 256]

RFCNonce == <<187, 170, 153, 136, 119, 102, 85, 68, 51, 34, 17, 1>>

SeqNonces == {RFCNonce}

SeqMacLens == {12}

Secrets == {0, 1}

(* sizes of the chunks the caller feeds: empty, short of a block, filling  *)
(* a started block up, a block, more than a block                          *)
ADChunks == {0, 7, 9, 16}

MsgChunks == {0, 7, 9, 16, 25}

ADSizes == {n \in ADChunks : adIn + n <= Len(A)}

MsgSizes == {n \in MsgChunks : msgIn + n <= Len(P)}

NoHist == [upd |-> FALSE, encData |-> FALSE, encNone |-> FALSE, decData |-> FALSE,
           decNone |-> FALSE, dig |-> FALSE, verTried |-> FALSE, ver |-> FALSE,
           failed |-> FALSE]

Init ==
    /\ \E n \in SeqNonces, t \in SeqMacLens : cipher = new(n, t)
    /\ A = Data(7, MaxAD)
    /\ P = Data(200, MaxMsg)
    /\ adIn = 0
    /\ msgIn = 0
    /\ call = "new"
    /\ arg = "-"
    /\ err = "none"
    /\ ret = None
    /\ out = <<>>
    /\ hist = NoHist
    /\ pre = NoHist
    /\ pc = "session"
    /\ wire = <<>>

(* The tag the session would compute now, and the tags a caller may hand   *)
(* to verify(): that one, one with a flipped bit, one that is a byte too   *)
(* short, one that is a byte too long.                                     *)
ExpectedTag == compute_mac_tag(cipher).mac_tag

TagKinds == {"good", "bad", "short", "long"}

ReceivedTag(good, kind) ==
    IF kind = "good" THEN good
    ELSE IF kind = "bad" THEN [good EXCEPT ![1] = ByteXor(good[1], 1)]
    ELSE IF kind = "short" THEN Take(good, Len(good) - 1)
    ELSE good \o <<0>>

Step(op, a, r, h) ==
    /\ cipher' = r.c
    /\ call' = op
    /\ arg' = a
    /\ err' = r.err
    /\ ret' = r.ret
    /\ out' = out \o r.out
    /\ pre' = hist
    /\ hist' = [h EXCEPT !.failed = h.failed \/ r.err # "none"]
    /\ UNCHANGED <<A, P, pc, wire>>

Update(n) ==
    \E r \in {update(cipher, SubSeq(A, adIn + 1, adIn + n))} :
        /\ Step("update", "data", r,
                IF r.err = "none" THEN [hist EXCEPT !.upd = TRUE] ELSE hist)
        /\ adIn' = IF r.err = "none" THEN adIn + n ELSE adIn
        /\ UNCHANGED msgIn

Encrypt(n) ==
    \E r \in {encrypt(cipher, SubSeq(P, msgIn + 1, msgIn + n))} :
        /\ Step("encrypt", "data", r,
                IF r.err = "none" THEN [hist EXCEPT !.encData = TRUE] ELSE hist)
        /\ msgIn' = IF r.err = "none" THEN msgIn + n ELSE msgIn
        /\ UNCHANGED adIn

EncryptNone ==
    \E r \in {encrypt(cipher, None)} :
        /\ Step("encrypt", "None", r,
                IF r.err = "none" THEN [hist EXCEPT !.encNone = TRUE] ELSE hist)
        /\ UNCHANGED <<adIn, msgIn>>

Decrypt(n) ==
    \E r \in {decrypt(cipher, SubSeq(P, msgIn + 1, msgIn + n))} :
        /\ Step("decrypt", "data", r,
                IF r.err = "none" THEN [hist EXCEPT !.decData = TRUE] ELSE hist)
        /\ msgIn' = IF r.err = "none" THEN msgIn + n ELSE msgIn
        /\ UNCHANGED adIn

DecryptNone ==
    \E r \in {decrypt(cipher, None)} :
        /\ Step("decrypt", "None", r,
                IF r.err = "none" THEN [hist EXCEPT !.decNone = TRUE] ELSE hist)
        /\ UNCHANGED <<adIn, msgIn>>

Digest ==
    \E r \in {digest(cipher)} :
        /\ Step("digest", "-", r,
                IF r.err = "none" THEN [hist EXCEPT !.dig = TRUE] ELSE hist)
        /\ UNCHANGED <<adIn, msgIn>>

Verify ==
    \E good \in {ExpectedTag} :
    \E kind \in TagKinds, secret \in Secrets :
    \E tag \in {ReceivedTag(good, kind)} :
    \E r \in {verify(cipher, tag, secret)} :
        /\ Step("verify", tag, r,
                IF r.err = "none" THEN [hist EXCEPT !.verTried = TRUE, !.ver = TRUE]
                ELSE IF r.err = "MacMismatch" THEN [hist EXCEPT !.verTried = TRUE]
                ELSE hist)
        /\ UNCHANGED <<adIn, msgIn>>

EncryptAndDigest(n) ==
    \E r \in {encrypt_and_digest(cipher, SubSeq(P, msgIn + 1, msgIn + n))} :
        /\ Step("encrypt_and_digest", "data", r,
                IF r.err = "none"
                THEN [hist EXCEPT !.encData = TRUE, !.encNone = TRUE, !.dig = TRUE]
                ELSE hist)
        /\ msgIn' = IF r.err = "none" THEN msgIn + n ELSE msgIn
        /\ UNCHANGED adIn

(* the tag handed over is judged against the tag of the message as it      *)
(* will be once the ciphertext has been fed                                *)
DecryptAndVerify(n) ==
    \E data \in {SubSeq(P, msgIn + 1, msgIn + n)} :
    \E good \in {compute_mac_tag(decrypt(decrypt(cipher, data).c, None).c).mac_tag} :
    \E kind \in TagKinds, secret \in Secrets :
    \E r \in {decrypt_and_verify(cipher, data, ReceivedTag(good, kind), secret)} :
        /\ Step("decrypt_and_verify", "data", r,
                IF r.err = "none"
                THEN [hist EXCEPT !.decData = TRUE, !.decNone = TRUE,
                                  !.verTried = TRUE, !.ver = TRUE]
                ELSE IF r.err = "MacMismatch"
                THEN [hist EXCEPT !.decData = TRUE, !.decNone = TRUE, !.verTried = TRUE]
                ELSE hist)
        /\ msgIn' = IF r.err # "InvalidSequence" THEN msgIn + n ELSE msgIn
        /\ UNCHANGED adIn

Next ==
    \/ \E n \in ADSizes : Update(n)
    \/ \E n \in MsgSizes : Encrypt(n)
    \/ EncryptNone
    \/ \E n \in MsgSizes : Decrypt(n)
    \/ DecryptNone
    \/ Digest
    \/ Verify
    \/ \E n \in MsgSizes : EncryptAndDigest(n)
    \/ \E n \in MsgSizes : DecryptAndVerify(n)

Spec == Init /\ [][Next]_vars

----------------------------------------------------------------------------
(* Properties of one session under arbitrary call sequences (Spec) *)

Encrypting(h) == h.encData \/ h.encNone

Decrypting(h) == h.decData \/ h.decNone

(* phase AD: update() has been called, and nothing else *)
PhaseAD(h) ==
    h.upd /\ ~Encrypting(h) /\ ~Decrypting(h) /\ ~h.dig /\ ~h.verTried

(* C1: every forbidden call sequence raises: after any successful          *)
(* encrypt(...) or decrypt(...) call, update() fails with InvalidSequence, *)
(* and after any successful decrypt(...) call, digest() fails.             *)
C1_SequenceEnforcement ==
    /\ (call = "update" /\ (Encrypting(pre) \/ Decrypting(pre))) => err = "InvalidSequence"
    /\ (call = "digest" /\ Decrypting(pre)) => err # "none"

(* The one-shot sequence update(A); encrypt(P); encrypt(None); digest()    *)
(* on a fresh session with the same nonce and tag length.                  *)
OneShot(nonce, mac_len, ad, msg) ==
    The({ The({ [ciphertext |-> r2.ret \o r3.ret, tag |-> digest(r3.c).ret] :
                r3 \in {encrypt(r2.c, None)} }) :
          r2 \in {encrypt(update(new(nonce, mac_len), ad).c, msg)} })

(* C3: streaming equivalence: when a session that was fed A in chunks by   *)
(* update() and P in chunks by encrypt(), then encrypt(None), returns its  *)
(* tag from digest(), the concatenated ciphertext and the tag are those of *)
(* the one-shot sequence over the same bytes.                              *)
C3_StreamingEquivalence ==
    (call = "digest" /\ err = "none" /\ hist.encNone) =>
        \E one \in {OneShot(cipher.nonce, cipher.mac_len, Take(A, adIn), Take(P, msgIn))} :
            out = one.ciphertext /\ ret = one.tag

(* the session was fed in several chunks that straddle block boundaries *)
C3_Witness ==
    /\ call = "digest" /\ err = "none" /\ hist.encNone
    /\ adIn = 18 /\ msgIn = 28
    /\ Len(out) = 28

(* C5 as stated: once any call has raised, every later call fails with     *)
(* InvalidSequence.                                                        *)
C5_ErrorCloses ==
    pre.failed => err = "InvalidSequence"

(* C5 amended: an error does not close the session.  A call that fails     *)
(* with InvalidSequence or PendingData leaves the object exactly as it     *)
(* was, and after MacMismatch verify() remains permitted.                  *)
C5_ErrorKeepsSession ==
    [][/\ err' \in {"InvalidSequence", "PendingData"} => cipher' = cipher
       /\ err' = "MacMismatch" => "verify" \in cipher'.next]_vars

(* a call has failed, and a later encrypt() of data is accepted *)
C5_Witness ==
    pre.failed /\ call = "encrypt" /\ err = "none" /\ msgIn > 0

(* C6 as stated: once encrypt(data) has been called, digest() fails with   *)
(* InvalidSequence until encrypt(None) has been called; digest() also      *)
(* fails in phase AD.                                                      *)
C6_DigestRequiresEncFinal ==
    /\ (call = "digest" /\ pre.encData /\ ~pre.encNone) => err = "InvalidSequence"
    /\ (call = "digest" /\ PhaseAD(pre)) => err # "none"

(* C6 amended: once encrypt(data) has been called and before               *)
(* encrypt(None), digest() fails, with PendingData, exactly when the       *)
(* number of bytes fed is not a multiple of 16, and returns the tag when   *)
(* it is; digest() also returns the tag in phase AD and after              *)
(* encrypt(None).                                                          *)
C6_DigestRequiresNoPending ==
    /\ (call = "digest" /\ pre.encData /\ ~pre.encNone) =>
            IF msgIn % block_size = 0 THEN err = "none" /\ ret = cipher.mac_tag
            ELSE err = "PendingData"
    /\ (call = "digest" /\ PhaseAD(pre)) => (err = "none" /\ ret = cipher.mac_tag)
    /\ (call = "digest" /\ pre.encNone) => (err = "none" /\ ret = cipher.mac_tag)

(* digest() returns a tag after encrypt(data), without encrypt(None) *)
C6_Witness ==
    /\ call = "digest" /\ pre.encData /\ ~pre.encNone
    /\ msgIn = 32 /\ err = "none" /\ Len(ret) = cipher.mac_len

(* C7: once decrypt(data) has been called, verify() fails with             *)
(* InvalidSequence until decrypt(None) has been called; after              *)
(* decrypt(None), verify() is the only method that is permitted.           *)
C7_VerifyRequiresDecFinal ==
    /\ (call = "verify" /\ pre.decData /\ ~pre.decNone) => err = "InvalidSequence"
    /\ (pre.decNone /\ call # "verify") => err = "InvalidSequence"
    /\ (pre.decNone /\ call = "verify") => err \in {"none", "MacMismatch"}

(* verify() is refused after decrypt(data) although nothing is pending *)
C7_Witness ==
    /\ call = "verify" /\ pre.decData /\ ~pre.decNone
    /\ msgIn = 32 /\ cipher.cache_P = <<>> /\ err = "InvalidSequence"

(* C8: once encrypt has succeeded, every later decrypt, verify and         *)
(* decrypt_and_verify fails with InvalidSequence; once decrypt has         *)
(* succeeded, every later encrypt and encrypt_and_digest fails with        *)
(* InvalidSequence.                                                        *)
C8_NeverMixed ==
    /\ (Encrypting(pre) /\ call \in {"decrypt", "verify", "decrypt_and_verify"})
            => err = "InvalidSequence"
    /\ (Decrypting(pre) /\ call \in {"encrypt", "encrypt_and_digest"})
            => err = "InvalidSequence"

(* decrypt() is tried in a session that has encrypted *)
C8_Witness ==
    pre.encData /\ msgIn > 0 /\ call = "decrypt" /\ err = "InvalidSequence"

(* C9: after encrypt(None) or decrypt(None) the session has returned as    *)
(* many bytes as it was fed, and the None call itself returns exactly      *)
(* (bytes fed mod 16) bytes.                                               *)
C9_LengthPreservation ==
    /\ (hist.encNone \/ hist.decNone) => Len(out) = msgIn
    /\ (call \in {"encrypt", "decrypt"} /\ arg = "None" /\ err = "none")
            => Len(ret) = msgIn % block_size
    /\ (call = "encrypt_and_digest" /\ err = "none" /\ ~pre.encData)
            => Len(ret[1]) = msgIn

(* two whole blocks were fed and encrypt(None) returned nothing *)
C9_Witness ==
    /\ call = "encrypt" /\ arg = "None" /\ err = "none"
    /\ msgIn = 32 /\ ret = <<>> /\ Len(out) = 32

(* C10: with 1..15 message bytes pending, digest() and verify() fail,      *)
(* leave the object unchanged and compute no tag.                          *)
C10_PendingData ==
    [][(call' \in {"digest", "verify"} /\ Len(cipher.cache_P) > 0)
            => (err' # "none" /\ cipher' = cipher /\ cipher'.mac_tag = None)]_vars

(* digest() was refused because bytes are pending *)
C10_Witness ==
    /\ call = "digest" /\ err = "PendingData"
    /\ Len(cipher.cache_P) \in 1..15 /\ cipher.mac_tag = None

(* C16: at every call boundary, for the associated data and for the        *)
(* message, the bytes handed to the engine so far followed by the pending  *)
(* buffer are the bytes fed so far, in order; each pending buffer holds    *)
(* fewer than 16 bytes; and before the final None call every encrypt or    *)
(* decrypt call returns a whole number of blocks, the bytes returned so    *)
(* far being as many as were fed less those that are pending.              *)
C16_OrderingAndBuffering ==
    /\ cipher.trace.fed_ad \o cipher.cache_A = Take(A, adIn)
    /\ cipher.trace.fed_msg \o cipher.cache_P = Take(P, msgIn)
    /\ Len(cipher.cache_A) < block_size
    /\ Len(cipher.cache_P) < block_size
    /\ (call \in {"encrypt", "decrypt"} /\ err = "none" /\ arg = "data")
            => Len(ret) % block_size = 0
    /\ (~hist.encNone /\ ~hist.decNone) => Len(out) = msgIn - Len(cipher.cache_P)

(* a call that filled the pending block, returned it and kept 7 bytes back *)
C16_Witness ==
    /\ call = "encrypt" /\ err = "none" /\ arg = "data"
    /\ adIn = 18 /\ Len(cipher.cache_A) = 2 /\ Len(cipher.trace.fed_ad) = 16
    /\ msgIn = 23 /\ Len(cipher.cache_P) = 7 /\ Len(ret) = 16 /\ Len(out) = 16

(* C17: once the tag has been computed, no call changes the cached tag,    *)
(* the pending buffers or the engine accumulators, and none calls into the *)
(* engine; a digest() that succeeds then returns the cached tag.           *)
C17_TagReadyFrozen ==
    [][cipher.mac_tag # None =>
          /\ cipher'.mac_tag = cipher.mac_tag
          /\ cipher'.cache_A = cipher.cache_A
          /\ cipher'.cache_P = cipher.cache_P
          /\ cipher'.state = cipher.state
          /\ cipher'.trace = cipher.trace
          /\ cipher'.trace.n_digest = 1 /\ cipher'.trace.late = 0
          /\ (call' = "digest" /\ err' = "none") => ret' = cipher.mac_tag]_vars

(* digest() is called again and returns the tag of the first call *)
C17_Witness ==
    /\ call = "digest" /\ pre.dig /\ err = "none"
    /\ ret = cipher.mac_tag /\ cipher.trace.n_digest = 1 /\ cipher.trace.late = 0
    /\ adIn = 18 /\ cipher.trace.part_ad = 1 /\ msgIn = 23

(* C18 as stated: after digest() or verify() has completed successfully,   *)
(* every further call fails with InvalidSequence.                          *)
C18_TagReadyTerminal ==
    (pre.dig \/ pre.ver) => err = "InvalidSequence"

(* C18 amended: after digest() has completed successfully, digest() is the *)
(* one call still permitted and returns the cached tag; after verify() has *)
(* completed successfully, verify() is the one call still permitted and    *)
(* returns or raises MacMismatch; every other call fails with              *)
(* InvalidSequence.                                                        *)
C18_TagReadyRepeatsOnly ==
    /\ pre.dig => IF call = "digest" THEN err = "none" /\ ret = cipher.mac_tag
                  ELSE err = "InvalidSequence"
    /\ pre.ver => IF call = "verify" THEN err \in {"none", "MacMismatch"}
                  ELSE err = "InvalidSequence"

(* after a verify() that succeeded, verify() is called with another tag *)
C18_Witness ==
    /\ pre.ver /\ call = "verify" /\ err = "MacMismatch"
    /\ cipher.next = VerifyNext /\ msgIn = 32

(* C19: on each stream, at most one chunk that is no whole number of       *)
(* blocks is handed to the engine in a session, and no byte is handed to   *)
(* the engine on that stream after it.                                     *)
C19_PartialChunkIsLast ==
    /\ cipher.trace.part_ad <= 1 /\ cipher.trace.tail_ad = 0
    /\ cipher.trace.part_msg <= 1 /\ cipher.trace.tail_msg = 0
    /\ (cipher.trace.part_ad = 1) => (cipher.mac_tag # None /\ "update" \notin cipher.next)
    /\ (cipher.trace.part_msg = 1)
            => (cipher.next \cap {"encrypt", "decrypt"} = {} /\ (hist.encNone \/ hist.decNone))

(* both streams ended in a chunk that is no whole number of blocks *)
C19_Witness ==
    /\ cipher.trace.part_ad = 1 /\ cipher.trace.part_msg = 1
    /\ adIn = 18 /\ msgIn = 23 /\ Len(cipher.trace.fed_ad) = 18
    /\ Len(cipher.trace.fed_msg) = 23 /\ call = "digest"

(* C20: when the engine's digest function is called, no byte is pending   *)
(* in either cache, and every byte of associated data passed to update()   *)
(* and every message byte passed to encrypt() or decrypt() in the session  *)
(* has been handed to the engine, in order.                                *)
C20_NothingDropped ==
    cipher.trace.n_digest > 0 =>
        /\ cipher.trace.pend_at_digest = 0
        /\ cipher.cache_A = <<>> /\ cipher.cache_P = <<>>
        /\ cipher.trace.fed_ad = Take(A, adIn)
        /\ cipher.trace.fed_msg = Take(P, msgIn)

(* verify() computed the tag over unaligned associated data and a message  *)
(* fed to decrypt()                                                        *)
C20_Witness ==
    /\ call = "verify" /\ err = "none" /\ cipher.trace.n_digest = 1
    /\ adIn = 7 /\ cipher.trace.fed_ad = Take(A, 7)
    /\ msgIn = 25 /\ cipher.trace.fed_msg = Take(P, 25)

(* C12: a verify() that passes its sequence check raises MacMismatch       *)
(* exactly when the tag it received differs, in a byte or in length, from  *)
(* the engine's Final value cut to tag_len bytes, and returns otherwise,   *)
(* whichever key is drawn for the comparison.                              *)
C12_VerifyIffDiffers ==
    (call = "verify" /\ err # "InvalidSequence") =>
        /\ err \in {"none", "MacMismatch"}
        /\ cipher.mac_tag = Take(OCB_digest(cipher.state), cipher.mac_len)
        /\ (err = "MacMismatch") <=> (arg # cipher.mac_tag)

(* a tag that is the computed tag without its last byte is refused *)
C12_Witness ==
    /\ call = "verify" /\ err = "MacMismatch"
    /\ Len(arg) = cipher.mac_len - 1
    /\ arg = Take(cipher.mac_tag, cipher.mac_len - 1)

----------------------------------------------------------------------------
(* Round trip: a sender absorbs A and calls encrypt_and_digest(P); a       *)
(* receiver opens a fresh session with the same key, nonce and tag length, *)
(* absorbs A and calls decrypt_and_verify on what the sender produced.     *)

RtNonces == {Data(59, n) : n \in 1..15}

RtMacLens == 8..16

RtADLens == {0, 5, 16, MaxRtAD}

RtMsgLens == {0, 7, 16, 32, MaxRtMsg}

InitRT ==
    /\ \E n \in RtNonces, t \in RtMacLens : cipher = new(n, t)
    /\ \E a \in RtADLens : A = Data(7, a)
    /\ \E m \in RtMsgLens : P = Data(200, m)
    /\ adIn = 0
    /\ msgIn = 0
    /\ call = "new"
    /\ arg = "-"
    /\ err = "none"
    /\ ret = None
    /\ out = <<>>
    /\ hist = NoHist
    /\ pre = NoHist
    /\ pc = "snd_ad"
    /\ wire = <<>>

RtUpdate ==
    /\ pc \in {"snd_ad", "rcv_ad"}
    /\ \E r \in {update(cipher, A)} :
           /\ cipher' = r.c
           /\ err' = r.err
           /\ ret' = r.ret
    /\ call' = "update"
    /\ arg' = "data"
    /\ pc' = IF pc = "snd_ad" THEN "snd_enc" ELSE "rcv_dec"
    /\ UNCHANGED <<A, P, adIn, msgIn, out, hist, pre, wire>>

RtEncryptAndDigest ==
    /\ pc = "snd_enc"
    /\ \E r \in {encrypt_and_digest(cipher, P)} :
           /\ cipher' = r.c
           /\ err' = r.err
           /\ ret' = r.ret
           /\ wire' = r.ret
    /\ call' = "encrypt_and_digest"
    /\ arg' = "data"
    /\ pc' = "open"
    /\ UNCHANGED <<A, P, adIn, msgIn, out, hist, pre>>

RtOpen ==
    /\ pc = "open"
    /\ cipher' = new(cipher.nonce, cipher.mac_len)
    /\ call' = "new"
    /\ arg' = "-"
    /\ err' = "none"
    /\ ret' = None
    /\ pc' = "rcv_ad"
    /\ UNCHANGED <<A, P, adIn, msgIn, out, hist, pre, wire>>

RtDecryptAndVerify ==
    /\ pc = "rcv_dec"
    /\ \E secret \in Secrets :
       \E r \in {decrypt_and_verify(cipher, wire[1], wire[2], secret)} :
           /\ cipher' = r.c
           /\ err' = r.err
           /\ ret' = r.ret
    /\ call' = "decrypt_and_verify"
    /\ arg' = "data"
    /\ pc' = "done"
    /\ UNCHANGED <<A, P, adIn, msgIn, out, hist, pre, wire>>

NextRT ==
    \/ RtUpdate
    \/ RtEncryptAndDigest
    \/ RtOpen
    \/ RtDecryptAndVerify

SpecRT == InitRT /\ [][NextRT]_vars

(* C2: round trip: decrypt_and_verify on the sender's ciphertext and tag   *)
(* returns exactly P and raises nothing, for every nonce length 1..15 and  *)
(* tag length 8..16.                                                       *)
C2_RoundTrip ==
    pc = "done" => (err = "none" /\ ret = P)

(* C13: the tag digest() returns has exactly tag_len bytes, the first      *)
(* tag_len bytes of the engine's 16-byte Final value, for every tag_len in *)
(* 8..16.                                                                  *)
C13_TagIsFinalPrefix ==
    (call = "encrypt_and_digest" /\ err = "none") =>
        /\ cipher.mac_len \in 8..16
        /\ Len(OCB_digest(cipher.state)) = block_size
        /\ Len(ret[2]) = cipher.mac_len
        /\ \A i \in 1..cipher.mac_len : ret[2][i] = OCB_digest(cipher.state)[i]

(* a tag of 8 bytes over an unaligned message *)
C13_Witness ==
    /\ call = "encrypt_and_digest" /\ err = "none"
    /\ cipher.mac_len = 8 /\ Len(ret[2]) = 8 /\ Len(P) = 7

(* a 15-byte nonce, the shortest tag, unaligned A and P *)
C2_Witness ==
    /\ pc = "done" /\ err = "none"
    /\ Len(cipher.nonce) = 15 /\ cipher.mac_len = 8
    /\ Len(A) = 5 /\ Len(P) = 7 /\ Len(ret) = 7
    /\ Len(wire[1]) = 7 /\ Len(wire[2]) = 8 /\ wire[1] # P

----------------------------------------------------------------------------
(* Tampering with the nonce: the receiver's nonce is the sender's with     *)
(* one bit flipped.                                                        *)

TamperNonces == {Data(59, n) : n \in 1..15} \cup {Data(0, n) : n \in 1..15}

FlipBit(nonce, i, b) ==
    [nonce EXCEPT ![i] = IF (nonce[i] \div (2 ^ b)) % 2 = 0
                         THEN nonce[i] + (2 ^ b) ELSE nonce[i] - (2 ^ b)]

InitNonce ==
    /\ \E n \in TamperNonces, t \in RtMacLens : cipher = new(n, t)
    /\ A = <<>>
    /\ P = <<>>
    /\ adIn = 0
    /\ msgIn = 0
    /\ call = "new"
    /\ arg = "-"
    /\ err = "none"
    /\ ret = None
    /\ out = <<>>
    /\ hist = NoHist
    /\ pre = NoHist
    /\ pc = "original"
    /\ wire = <<>>

(* the sender's nonce goes over the wire; the receiver opens a session     *)
(* with a nonce that differs from it in bit b of byte i                    *)
TamperNonce(i, b) ==
    /\ pc = "original"
    /\ wire' = cipher.nonce
    /\ cipher' = new(FlipBit(cipher.nonce, i, b), cipher.mac_len)
    /\ pc' = "tampered"
    /\ UNCHANGED <<A, P, adIn, msgIn, call, arg, err, ret, out, hist, pre>>

NextNonce ==
    \E i \in 1..Len(cipher.nonce), b \in 0..7 : TamperNonce(i, b)

SpecNonce == InitNonce /\ [][NextNonce]_vars

(* C4: two sessions whose nonces differ in a bit give E_K different        *)
(* (masked nonce block, bottom) pairs, for every nonce length 1..15 and    *)
(* tag length 8..16.                                                       *)
C4_NonceInjective ==
    pc = "tampered" =>
        <<KtopInput(cipher.nonce, cipher.mac_len), Bottom(cipher.nonce, cipher.mac_len)>>
            # <<KtopInput(wire, cipher.mac_len), Bottom(wire, cipher.mac_len)>>

(* C14: the nonce block built at construction is 16 bytes long for every   *)
(* nonce length 1..15: its first byte carries tag_len*8 mod 128 in bits    *)
(* 7..1, bottom is taken from the last byte of the nonce, and the block    *)
(* given to E_K holds every byte of the nonce (the last one without its    *)
(* six low bits).                                                          *)
C14_NonceBlockLength ==
    /\ Len(cipher.nonce) \in 1..15
    /\ Len(NonceBlock(cipher.nonce, cipher.mac_len)) = 16
    /\ NonceBlock(cipher.nonce, cipher.mac_len)[1] = 2 * ((cipher.mac_len * 8) % 128)
    /\ Bottom(cipher.nonce, cipher.mac_len) = cipher.nonce[Len(cipher.nonce)] % 64
    /\ \A i \in 1..Len(cipher.nonce) :
            KtopInput(cipher.nonce, cipher.mac_len)[16 - Len(cipher.nonce) + i]
                = IF i < Len(cipher.nonce) THEN cipher.nonce[i]
                  ELSE cipher.nonce[i] - (cipher.nonce[i] % 64)

----------------------------------------------------------------------------
(* Offset_0 from Ktop and bottom: lines 173 to 175 on their own, for every *)
(* bottom and some values of Ktop.                                         *)

Ktops == {EK(Data(0, block_size)), EK(Data(59, block_size)), EK(Data(113, block_size)),
          bchr_times(255, block_size), <<128>> \o bchr_times(0, block_size - 2) \o <<1>>}

Bottoms == 0..63

InitOffset ==
    /\ cipher = <<>>
    /\ A = <<>>
    /\ P = <<>>
    /\ adIn = 0
    /\ msgIn = 0
    /\ call = "-"
    /\ \E ktop \in Ktops, bottom \in Bottoms : arg = [ktop |-> ktop, bottom |-> bottom]
    /\ err = "none"
    /\ ret = None
    /\ out = <<>>
    /\ hist = NoHist
    /\ pre = NoHist
    /\ pc = "ktop"
    /\ wire = <<>>

ComputeOffset ==
    /\ pc = "ktop"
    /\ wire' = Stretch(arg.ktop)
    /\ ret' = Offset0FromStretch(Stretch(arg.ktop), arg.bottom)
    /\ call' = "offset_0"
    /\ pc' = "offset"
    /\ UNCHANGED <<cipher, A, P, adIn, msgIn, arg, err, out, hist, pre>>

NextOffset == ComputeOffset

SpecOffset == InitOffset /\ [][NextOffset]_vars

(* a byte string shifted left by k bits within its own width: the top k    *)
(* bits are discarded, k zero bits come in at the bottom                   *)
ShiftLeftDiscard(bytes, k) ==
    [j \in 1..Len(bytes) |->
        BitsToByte(Drop(bytes_to_long(bytes), k) \o bchr_times(0, k), j)]

(* C15 as stated: Offset_0 is the low 16 bytes (bytes 8..23) of the        *)
(* 24-byte Stretch shifted left by bottom bits.                            *)
C15_OffsetLowBytes ==
    pc = "offset" => ret = Drop(ShiftLeftDiscard(wire, arg.bottom), 8)

(* C15 amended: Offset_0 is the high 16 bytes (bytes 0..15) of the 24-byte *)
(* Stretch shifted left by bottom bits, that is bits bottom+1 to           *)
(* bottom+128 of Stretch counted from the most significant one, for every  *)
(* bottom in 0..63.                                                        *)
C15_OffsetHighBytes ==
    pc = "offset" =>
        /\ Len(wire) = 24 /\ Len(ret) = 16
        /\ ret = Take(ShiftLeftDiscard(wire, arg.bottom), 16)
        /\ bytes_to_long(ret)
              = SubSeq(bytes_to_long(wire), arg.bottom + 1, arg.bottom + 128)

(* a shift that is no whole number of bytes, of a Stretch it changes *)
C15_Witness ==
    /\ pc = "offset" /\ arg.bottom = 37
    /\ ret # Take(wire, 16) /\ ret # SubSeq(wire, 5, 20) /\ ret # Drop(wire, 8)

----------------------------------------------------------------------------
(* Construction: a caller opens a session with a cipher of some block      *)
(* size, a nonce and a tag length, valid or not.                           *)

OpenBlockSizes == {8, 16, 32}

OpenNonces == {Data(59, n) : n \in 0..17}

OpenMacLens == 6..18

SessionState == {"mac_tag", "cache_A", "cache_P", "next", "state", "trace"}

InitOpen ==
    /\ cipher = <<>>
    /\ A = <<>>
    /\ P = <<>>
    /\ adIn = 0
    /\ msgIn = 0
    /\ call = "-"
    /\ \E bs \in OpenBlockSizes, n \in OpenNonces, t \in OpenMacLens :
            arg = [block_size |-> bs, nonce |-> n, mac_len |-> t]
    /\ err = "none"
    /\ ret = None
    /\ out = <<>>
    /\ hist = NoHist
    /\ pre = NoHist
    /\ pc = "closed"
    /\ wire = <<>>

Open ==
    /\ pc = "closed"
    /\ \E r \in {init(arg.block_size, arg.nonce, arg.mac_len)} :
           /\ cipher' = r.c
           /\ err' = r.err
           /\ ret' = r.ret
    /\ call' = "new"
    /\ pc' = "opened"
    /\ UNCHANGED <<A, P, adIn, msgIn, arg, out, hist, pre, wire>>

NextOpen == Open

SpecOpen == InitOpen /\ [][NextOpen]_vars

TypeOK ==
    /\ cipher.next \subseteq {"update", "encrypt", "decrypt", "digest", "verify"}
    /\ Len(cipher.cache_A) < block_size
    /\ Len(cipher.cache_P) < block_size

====
